---------------------------- MODULE Spec2Model ----------------------------
(***************************************************************************)
(* A model of the Ternoa validator exporter (src/exporter/                 *)
(* ternoa-exporter.py): the connection retry loop, one poll cycle          *)
(* (validator listing, snapshot building, stake-movement tracking, gauge   *)
(* publication), the except/finally of metrics_loop, the signal handler    *)
(* and the arithmetic the snapshots are built with.                        *)
(*                                                                         *)
(* The chain node is the environment: every query of the RPC client is a   *)
(* nondeterministic reply (a value, a falsy result, or an exception).      *)
(*                                                                         *)
(* Python floats are modelled as binary floating point with MantBits       *)
(* significant bits and a smallest spacing of 2^-FracBits, rounded to      *)
(* nearest, ties to even.  A float x is held as the integer x * 2^FracBits.*)
(***************************************************************************)
EXTENDS Integers, Sequences, FiniteSets, TLC

\* ------------------------------------------------------------------ bounds
\* Significant bits of a float (53 in the program's doubles).
MantBits == 2
\* Fractional bits below which a float has no finer spacing.
FracBits == 2
\* The divisor that turns a raw balance into CAPS (10^18 in the program).
CapsUnit == 2
\* Raw balances (own, total) of an exposure.
MaxRaw == 6
\* Entries of a reward-points table, points of one entry and the raw era
\* reward of the reward computation checked on its own.
MaxTableLen == 2
MaxPoints == 2
MaxRawReward == 2
\* Nominators listed in one exposure.
MaxNominators == 1
\* Largest active-era index the chain reaches.
MaxEra == 1
\* Connections whose handle was dropped without close.
MaxLeaked == 1
\* Signals whose SystemExit was caught inside the process.
MaxSwallowed == 1
\* Consecutive poll cycles of the cycle function checked on its own.
MaxCycles == 3

\* ------------------------------------------------------- program constants
MAX_RETRIES == 5

Validators == {"v1", "v2"}
\* query_map yields the registered validators in storage order.
ValidatorOrder == <<"v1", "v2">>

\* ------------------------------------------------------------------ floats
RECURSIVE Pow2(_)
Pow2(k) == IF k = 0 THEN 1 ELSE 2 * Pow2(k - 1)

\* The least shift k with floor(q / 2^k) < 2^MantBits.
RECURSIVE ShiftFor(_)
ShiftFor(q) == IF q < Pow2(MantBits) THEN 0 ELSE 1 + ShiftFor(q \div 2)

\* num/den (num >= 0, den > 0) rounded to the nearest float, ties to even.
RoundQ(num, den) ==
    LET k == ShiftFor(num \div den)
        d == den * Pow2(k)
        q == num \div d
        r == num % d
        up == (2 * r > d) \/ (2 * r = d /\ q % 2 = 1)
    IN  (IF up THEN q + 1 ELSE q) * Pow2(k)

Abs(x) == IF x < 0 THEN 0 - x ELSE x

\* float(n) of an integer n >= 0.
FloatOfInt(n) == RoundQ(n * Pow2(FracBits), 1)

FAdd(a, b) == IF a + b >= 0 THEN RoundQ(a + b, 1) ELSE 0 - RoundQ(0 - (a + b), 1)
FSub(a, b) == IF a >= b THEN RoundQ(a - b, 1) ELSE 0 - RoundQ(b - a, 1)
FMul(a, b) == RoundQ(a * b, Pow2(FracBits))
FDiv(a, b) == RoundQ(a * Pow2(FracBits), b)

\* float(raw) / 1e18
ToCaps(raw) == FDiv(FloatOfInt(raw), FloatOfInt(CapsUnit))


\* ------------------------------------------------------------ partial maps
EmptyMap == [x \in {} |-> 0]
Put(f, k, v) == [x \in (DOMAIN f) \cup {k} |-> IF x = k THEN v ELSE f[x]]

\* An Optional[float]: <<>> is None, <<x>> is x.
Nothing == <<>>
Some(x) == <<x>>

\* ------------------------------------------------------------ chain replies
\* One entry of ErasRewardPoints' value: a [address, points] list ("pair"), an
\* entry that is no list of two ("short"), or a list whose points are no number
\* ("bad").
PairEntry(a, p) == [shape |-> "pair", addr |-> a, points |-> p]
ShortEntry == [shape |-> "short", addr |-> "v1", points |-> 0]
BadEntry == [shape |-> "bad", addr |-> "v1", points |-> 0]

Entries(maxPoints) ==
    {PairEntry(a, p) : a \in Validators, p \in 0..maxPoints} \cup {ShortEntry, BadEntry}

Tables(maxLen, maxPoints) ==
    UNION {[1..n -> Entries(maxPoints)] : n \in 0..maxLen}

\* The reply to query("Staking", "ErasRewardPoints", [era_index]).
PointsReply(kind, table) == [kind |-> kind, table |-> table]
PointsReplies(maxLen, maxPoints) ==
    {PointsReply(k, <<>>) : k \in {"raise", "falsy", "notlist"}}
        \cup {PointsReply("list", t) : t \in Tables(maxLen, maxPoints)}

\* The reply to query("Staking", "ErasValidatorReward", [era_index]).
RewardReply(kind, raw) == [kind |-> kind, raw |-> raw]
RewardReplies(maxRaw) ==
    {RewardReply(k, 0) : k \in {"raise", "none"}}
        \cup {RewardReply("value", r) : r \in 0..maxRaw}

\* The reply to query("Staking", "ErasStakers", [era_index, validator]).
ExposureReply(kind, own, total, others) ==
    [kind |-> kind, own |-> own, total |-> total, others |-> others]
\* On chain total = own + the nominators' stakes, so own <= total and others is
\* empty exactly when total = own; a validator that is not elected in the era
\* has the default exposure (0, 0, no nominators), an elected one has own > 0.
WellFormedExposure(o, t, n) ==
    /\ o <= t
    /\ (n = 0) <=> (t = o)
    /\ (o = 0) => (t = 0)
ExposureReplies(maxRaw) ==
    {ExposureReply(k, 0, 0, 0) : k \in {"raise", "falsy", "malformed"}}
        \cup {e \in {ExposureReply("ok", o, t, n) :
                        o \in 0..maxRaw, t \in 0..maxRaw, n \in 0..MaxNominators} :
                WellFormedExposure(e.own, e.total, e.others)}

\* ------------------------------------------------------------- reward math
\* First pass of get_era_rewards: the sum of the points of the entries that
\* are lists of two.
RECURSIVE SumPoints(_, _)
SumPoints(table, acc) ==
    IF table = <<>> THEN acc
    ELSE LET e == Head(table)
         IN  SumPoints(Tail(table),
                       IF e.shape = "pair" THEN FAdd(acc, FloatOfInt(e.points)) ELSE acc)

\* FindPoints without the break: the last matching entry wins.
RECURSIVE FindPoints_last(_, _)
FindPoints_last(table, validator) ==
    IF table = <<>> THEN 0
    ELSE LET e == table[Len(table)]
         IN  IF e.shape = "pair" /\ e.addr = validator
             THEN FloatOfInt(e.points)
             ELSE FindPoints_last(SubSeq(table, 1, Len(table) - 1), validator)

\* Second pass: the points of the first entry whose address is the validator.
RECURSIVE FindPoints(_, _)
FindPoints(table, validator) ==
    IF table = <<>> THEN 0
    ELSE LET e == Head(table)
         IN  IF e.shape = "pair" /\ e.addr = validator
             THEN FloatOfInt(e.points)
             ELSE FindPoints(Tail(table), validator)

HasBad(table) == \E i \in 1..Len(table) : table[i].shape = "bad"

RewardResult(value, logged) == [reward |-> value, logged |-> logged]

\* get_era_rewards without the substitution of 1 for a total of 0.
get_era_rewards_noguard(validator, pts, rew) ==
    IF pts.kind = "raise" THEN RewardResult(0, TRUE)
    ELSE IF pts.kind # "list" THEN RewardResult(0, FALSE)
    ELSE IF HasBad(pts.table) THEN RewardResult(0, TRUE)
    ELSE LET total_points == SumPoints(pts.table, 0)
             validator_points == FindPoints(pts.table, validator)
         IN  IF rew.kind = "raise" THEN RewardResult(0, TRUE)
             ELSE IF rew.kind = "none" \/ rew.raw = 0 THEN RewardResult(0, FALSE)
             ELSE IF total_points = 0 THEN RewardResult(0, TRUE)
             ELSE RewardResult(
                      FMul(FDiv(validator_points, total_points), ToCaps(rew.raw)),
                      FALSE)

\* get_era_rewards: the returned reward, and whether an error was logged.
get_era_rewards(validator, pts, rew) ==
    IF pts.kind = "raise" THEN RewardResult(0, TRUE)
    ELSE IF pts.kind # "list" THEN RewardResult(0, FALSE)
    ELSE IF HasBad(pts.table) THEN RewardResult(0, TRUE)
    ELSE LET summed == SumPoints(pts.table, 0)
             validator_points == FindPoints(pts.table, validator)
             total_points == IF summed = 0 THEN FloatOfInt(1) ELSE summed
         IN  IF rew.kind = "raise" THEN RewardResult(0, TRUE)
             ELSE IF rew.kind = "none" \/ rew.raw = 0 THEN RewardResult(0, FALSE)
             \* validator_points / 0 raises ZeroDivisionError into the inner except
             ELSE IF total_points = 0 THEN RewardResult(0, TRUE)
             ELSE RewardResult(
                      FMul(FDiv(validator_points, total_points), ToCaps(rew.raw)),
                      FALSE)

\* get_era_slashes
get_era_slashes == 0

\* ------------------------------------------------------------ delta tracker
MoveResult(inb, outb, gin, gout) ==
    [inbound |-> inb, outbound |-> outb, caps_in |-> gin, caps_out |-> gout]

\* track_stake_movements that reads a missing previous total as 0.
track_stake_movements_nonezero(validator, current_stake, previous_stake, gin, gout) ==
    LET stake_difference ==
            FSub(current_stake, IF previous_stake = Nothing THEN 0 ELSE previous_stake[1])
    IN  IF stake_difference > 0
        THEN MoveResult(stake_difference, 0,
                        Put(gin, validator, stake_difference), gout)
        ELSE IF stake_difference < 0
        THEN MoveResult(0, Abs(stake_difference), gin,
                        Put(gout, validator, Abs(stake_difference)))
        ELSE MoveResult(0, 0, gin, gout)

\* track_stake_movements without abs(): the outbound movement keeps its sign.
track_stake_movements_noabs(validator, current_stake, previous_stake, gin, gout) ==
    IF previous_stake = Nothing THEN MoveResult(0, 0, gin, gout)
    ELSE LET stake_difference == FSub(current_stake, previous_stake[1])
         IN  IF stake_difference > 0
             THEN MoveResult(stake_difference, 0,
                             Put(gin, validator, stake_difference), gout)
             ELSE IF stake_difference < 0
             THEN MoveResult(0, stake_difference, gin,
                             Put(gout, validator, stake_difference))
             ELSE MoveResult(0, 0, gin, gout)

\* track_stake_movements: the returned pair and the two gauges after the call.
track_stake_movements(validator, current_stake, previous_stake, gin, gout) ==
    IF previous_stake = Nothing THEN MoveResult(0, 0, gin, gout)
    ELSE LET stake_difference == FSub(current_stake, previous_stake[1])
         IN  IF stake_difference > 0
             THEN MoveResult(stake_difference, 0,
                             Put(gin, validator, stake_difference), gout)
             ELSE IF stake_difference < 0
             THEN MoveResult(0, Abs(stake_difference), gin,
                             Put(gout, validator, Abs(stake_difference)))
             ELSE MoveResult(0, 0, gin, gout)

\* --------------------------------------------------------- snapshot builder
Snapshot(own, total, others, nominators, rewards, slashes) ==
    [self_stake |-> own, total_stake |-> total, nominations |-> others,
     nominator_count |-> nominators, rewards |-> rewards, slashes |-> slashes]

\* The except branch of one validator's processing.
ZeroSnapshot == Snapshot(0, 0, 0, 0, 0, 0)

\* The body of get_validator_stakes' loop for an exposure that is truthy and
\* well formed.
BuildSnapshot(validator, exposure, pts, rew) ==
    LET own == ToCaps(exposure.own)
        total == ToCaps(exposure.total)
        others == FSub(total, own)
        nominators == exposure.others
        rewards == get_era_rewards(validator, pts, rew).reward
        slashes == get_era_slashes
    IN  Snapshot(own, total, others, nominators, rewards, slashes)

\* ProcessValidator with the except around the whole loop: a failure leaves
\* only the failed validator's zero snapshot.
ProcessValidator_wipe(built, validator, exposure, pts, rew) ==
    IF exposure.kind \in {"raise", "malformed"}
    THEN Put(EmptyMap, validator, ZeroSnapshot)
    ELSE IF exposure.kind = "falsy" THEN built
    ELSE Put(built, validator, BuildSnapshot(validator, exposure, pts, rew))

\* ProcessValidator with a get_era_rewards that lets its exception through to
\* the validator's except.
ProcessValidator_rewardsraise(built, validator, exposure, pts, rew) ==
    IF exposure.kind \in {"raise", "malformed"}
    THEN Put(built, validator, ZeroSnapshot)
    ELSE IF exposure.kind = "falsy" THEN built
    ELSE IF get_era_rewards(validator, pts, rew).logged
    THEN Put(built, validator, ZeroSnapshot)
    ELSE Put(built, validator, BuildSnapshot(validator, exposure, pts, rew))

\* One iteration of get_validator_stakes' loop: the map after validator has
\* been processed with these replies.
ProcessValidator(built, validator, exposure, pts, rew) ==
    IF exposure.kind \in {"raise", "malformed"}
    THEN Put(built, validator, ZeroSnapshot)
    ELSE IF exposure.kind = "falsy" THEN built
    ELSE Put(built, validator, BuildSnapshot(validator, exposure, pts, rew))

\* ----------------------------------------------------------- poll cycle
\* previous_stakes.get(validator, {}).get("total_stake")
PreviousTotal(prev, validator) ==
    IF validator \in DOMAIN prev THEN Some(prev[validator].total_stake) ELSE Nothing

Gauges(gin, gout) == [caps_in |-> gin, caps_out |-> gout]

\* Every gauge of the exporter.  A series is keyed by its validator label; the
\* name and status labels, which follow from the validator within a cycle, are
\* left out.  A reward series is keyed by <<validator, era label>>.
AllGauges(gin, gout, self, nom, total, count, rew) ==
    [caps_in |-> gin, caps_out |-> gout, self_stake |-> self, nominations |-> nom,
     total_stake |-> total, nominator_count |-> count, rewards |-> rew]

\* A reward reading for every snapshot, a reward of 0 included.
SetRewards_always(series, validator, current_era, rewards) ==
    Put(series, <<validator, current_era>>, rewards)

\* if stake_info["rewards"] > 0: VALIDATOR_REWARDS.labels(...).set(...)
SetRewards(series, validator, current_era, rewards) ==
    IF rewards > 0 THEN Put(series, <<validator, current_era>>, rewards) ELSE series

\* The for loop of update_metrics over validator_stakes.items(), in insertion
\* order: all the gauges after it.
RECURSIVE EmitLoop(_, _, _, _, _)
EmitLoop(order, built, prev, current_era, g) ==
    IF order = <<>> THEN g
    ELSE LET validator == Head(order)
         IN  IF validator \notin DOMAIN built
             THEN EmitLoop(Tail(order), built, prev, current_era, g)
             ELSE LET stake_info == built[validator]
                      m == track_stake_movements(
                               validator, stake_info.total_stake,
                               PreviousTotal(prev, validator), g.caps_in, g.caps_out)
                  IN  EmitLoop(Tail(order), built, prev, current_era,
                          AllGauges(m.caps_in, m.caps_out,
                                    Put(g.self_stake, validator, stake_info.self_stake),
                                    Put(g.nominations, validator, stake_info.nominations),
                                    Put(g.total_stake, validator, stake_info.total_stake),
                                    Put(g.nominator_count, validator,
                                        stake_info.nominator_count),
                                    SetRewards(g.rewards, validator, current_era,
                                               stake_info.rewards)))

\* previous_stakes.update(validator_stakes): a merge instead of a replacement.
PreviousAfterCycle_merge(prev, built) ==
    [v \in (DOMAIN prev) \cup (DOMAIN built) |->
        IF v \in DOMAIN built THEN built[v] ELSE prev[v]]

\* previous_stakes after a cycle that completed: previous_stakes = validator_stakes.
PreviousAfterCycle(prev, built) == built

\* The assignment made before the failing read, with the map still being built.
PreviousAfterFailure_assigned(prev, built) == built

\* previous_stakes after a cycle that raised: the assignment is not reached.
PreviousAfterFailure(prev, built) == prev

\* The registered validators a cycle can be given: any sublist of the order.
RECURSIVE SubLists(_)
SubLists(order) ==
    IF order = <<>> THEN {<<>>}
    ELSE LET rest == SubLists(Tail(order))
         IN  rest \cup {<<Head(order)>> \o r : r \in rest}

\* if attempt == MAX_RETRIES
LastAttempt_offbyone(a) == a = MAX_RETRIES

\* if attempt == MAX_RETRIES - 1
LastAttempt(a) == a = MAX_RETRIES - 1

\* ------------------------------------------------------------------- state
VARIABLES
    pc,                  \* where metrics_loop is
    attempt,             \* create_connection's loop variable
    made,                \* connection attempts made by the current call
    waits,               \* retry delays waited by the current call
    substrate,           \* metrics_loop's handle: "None" or "open"
    leaked,              \* handles opened and dropped without close
    failure,             \* what raised into metrics_loop's except
    era,                 \* the chain's active era
    validators,          \* update_metrics' list of registered validators
    idx,                 \* position of get_validator_stakes' loop
    era_index,           \* the era get_validator_stakes read
    stakes,              \* the snapshot map being built (validator_stakes)
    previous_stakes,
    VALIDATOR_CAPS_IN,
    VALIDATOR_CAPS_OUT,
    VALIDATOR_SELF_STAKE,
    VALIDATOR_NOMINATIONS,
    VALIDATOR_TOTAL_STAKE,
    VALIDATOR_NOMINATOR_COUNT,
    VALIDATOR_REWARDS,
    exit_status,         \* <<>> while the process runs, <<status>> once it exited
    last_completed,      \* history: <<>> or <<the map of the last completed cycle>>
    swallowed,           \* history: signals whose SystemExit an except caught
    input,               \* arguments of a function called on its own
    output               \* <<>> or <<its result>>

connVars == <<attempt, made, waits, substrate, leaked>>
cycleVars == <<validators, idx, era_index, stakes>>
gaugeVars == <<VALIDATOR_CAPS_IN, VALIDATOR_CAPS_OUT, VALIDATOR_SELF_STAKE,
               VALIDATOR_NOMINATIONS, VALIDATOR_TOTAL_STAKE,
               VALIDATOR_NOMINATOR_COUNT, VALIDATOR_REWARDS>>
loopVars == <<exit_status, last_completed, swallowed>>

progVars == <<pc, connVars, failure, era, cycleVars, previous_stakes, gaugeVars,
              loopVars>>
callVars == <<input, output>>
vars == <<progVars, callVars>>

\* The memory of a process that has just started.
Fresh ==
    /\ attempt = 0
    /\ made = 0
    /\ waits = 0
    /\ substrate = "None"
    /\ failure = "none"
    /\ validators = <<>>
    /\ idx = 0
    /\ era_index = 0
    /\ stakes = EmptyMap
    /\ previous_stakes = EmptyMap
    /\ VALIDATOR_CAPS_IN = EmptyMap
    /\ VALIDATOR_CAPS_OUT = EmptyMap
    /\ VALIDATOR_SELF_STAKE = EmptyMap
    /\ VALIDATOR_NOMINATIONS = EmptyMap
    /\ VALIDATOR_TOTAL_STAKE = EmptyMap
    /\ VALIDATOR_NOMINATOR_COUNT = EmptyMap
    /\ VALIDATOR_REWARDS = EmptyMap
    /\ last_completed = Nothing

ProgInit ==
    /\ pc = "connect"
    /\ Fresh
    /\ leaked = 0
    /\ era = 0
    /\ exit_status = Nothing
    /\ swallowed = 0

NoCall == [fn |-> "none"]

Init ==
    /\ ProgInit
    /\ input = NoCall
    /\ output = <<>>

\* ------------------------------------------------------- create_connection
\* An attempt raised (the constructor, or the System.Number query).
AttemptFailed ==
    /\ made' = made + 1
    /\ IF LastAttempt(attempt)
       THEN /\ pc' = "error_sleep"
            /\ failure' = "connect"
            /\ waits' = waits
       ELSE /\ pc' = "retry_wait"
            /\ failure' = failure
            /\ waits' = waits + 1
    /\ UNCHANGED <<attempt, substrate>>

ConnectAttempt ==
    /\ pc = "connect"
    /\ \/ /\ substrate' = "open"
          /\ made' = made + 1
          /\ pc' = "connected"
          /\ UNCHANGED <<attempt, waits, leaked, failure>>
       \/ /\ AttemptFailed
          /\ UNCHANGED leaked
       \/ /\ leaked < MaxLeaked
          /\ leaked' = leaked + 1
          /\ AttemptFailed
    /\ UNCHANGED <<era, cycleVars, previous_stakes, gaugeVars,
                   callVars, loopVars>>

\* asyncio.sleep(RETRY_DELAY) is over: the next iteration of the for loop, or
\* its end, where the function returns None.
RetryWake ==
    /\ pc = "retry_wait"
    /\ attempt' = attempt + 1
    /\ pc' = IF attempt + 1 < MAX_RETRIES THEN "connect" ELSE "connected"
    /\ UNCHANGED <<made, waits, substrate, leaked, failure, era, cycleVars,
                   previous_stakes, gaugeVars, callVars, loopVars>>

\* create_connection returned; metrics_loop enters its inner loop.
Connected ==
    /\ pc = "connected"
    /\ pc' = "update"
    /\ attempt' = 0
    /\ made' = 0
    /\ waits' = 0
    /\ UNCHANGED <<substrate, leaked, failure, era, cycleVars,
                   previous_stakes, gaugeVars, callVars, loopVars>>

\* ----------------------------------------------------------- update_metrics
\* A failed cycle that also clears every gauge.
Raise_clear(reason) ==
    /\ pc' = "error_sleep"
    /\ failure' = reason
    /\ previous_stakes' = PreviousAfterFailure(previous_stakes, stakes)
    /\ validators' = <<>>
    /\ idx' = 0
    /\ era_index' = 0
    /\ stakes' = EmptyMap
    /\ VALIDATOR_CAPS_IN' = EmptyMap
    /\ VALIDATOR_CAPS_OUT' = EmptyMap
    /\ VALIDATOR_SELF_STAKE' = EmptyMap
    /\ VALIDATOR_NOMINATIONS' = EmptyMap
    /\ VALIDATOR_TOTAL_STAKE' = EmptyMap
    /\ VALIDATOR_NOMINATOR_COUNT' = EmptyMap
    /\ VALIDATOR_REWARDS' = EmptyMap
    /\ UNCHANGED <<connVars, era, callVars, loopVars>>

\* An exception leaves update_metrics for metrics_loop's except: the locals are
\* gone, previous_stakes is what the raise leaves it.
Raise(reason) ==
    /\ pc' = "error_sleep"
    /\ failure' = reason
    /\ previous_stakes' = PreviousAfterFailure(previous_stakes, stakes)
    /\ validators' = <<>>
    /\ idx' = 0
    /\ era_index' = 0
    /\ stakes' = EmptyMap
    /\ UNCHANGED <<connVars, era, gaugeVars, callVars, loopVars>>

\* The replies the chain gives in the poll loop.  For the first validator: an
\* exposure query that raises, one that is falsy, the default exposure of a
\* validator that is not elected, and the exposure of an elected validator
\* with one nominator.  The other validators keep one exposure, or have none.
PollExposureReplies(validator) ==
    IF validator = Head(ValidatorOrder)
    THEN {ExposureReply("raise", 0, 0, 0), ExposureReply("falsy", 0, 0, 0),
          ExposureReply("ok", 0, 0, 0), ExposureReply("ok", 1, 2, 1)}
    ELSE {ExposureReply("falsy", 0, 0, 0), ExposureReply("ok", 1, 2, 1)}

\* A reward-points query that raises, a table whose points are no number, and
\* a table that gives every validator one point.
PollPointsReplies ==
    {PointsReply("raise", <<>>), PointsReply("list", <<BadEntry>>),
     PointsReply("list", <<PairEntry("v1", 1), PairEntry("v2", 1)>>)}

\* An era-reward query that raises, an era not yet paid, and a paid era.
PollRewardReplies ==
    {RewardReply("raise", 0), RewardReply("none", 0), RewardReply("value", 2)}

NoPoints == PointsReply("falsy", <<>>)
NoReward == RewardReply("none", 0)

\* update_metrics up to get_validator_stakes' read of the active era:
\* query_map("Staking", "Validators"), query("Session", "Validators") and
\* query("Staking", "ActiveEra").
BeginCycle ==
    /\ pc = "update"
    /\ \/ \E reason \in {"validators", "active_set", "active_era"} : Raise(reason)
       \/ /\ substrate = "open"
          /\ \E vs \in SubLists(ValidatorOrder) :
               /\ validators' = vs
               /\ pc' = IF vs = <<>> THEN "current_era" ELSE "stakers"
          /\ era_index' = era
          /\ stakes' = EmptyMap
          /\ idx' = 1
          /\ UNCHANGED <<connVars, failure, era, previous_stakes, gaugeVars, callVars, loopVars>>

\* get_validator_stakes: one iteration of the loop over the validators.
StakersStep ==
    /\ pc = "stakers"
    /\ LET validator == validators[idx]
       IN  \E exposure \in PollExposureReplies(validator) :
             \E pts \in IF exposure.kind = "ok" /\ validator = Head(ValidatorOrder)
                        THEN PollPointsReplies
                        ELSE {NoPoints} :
               \E rew \in IF exposure.kind = "ok" /\ pts.kind = "list"
                          THEN PollRewardReplies
                          ELSE {NoReward} :
                 stakes' = ProcessValidator(stakes, validator, exposure, pts, rew)
    /\ idx' = idx + 1
    /\ pc' = IF idx + 1 > Len(validators) THEN "current_era" ELSE "stakers"
    /\ UNCHANGED <<connVars, failure, era, validators, era_index, previous_stakes,
                   gaugeVars, callVars, loopVars>>

\* The rest of update_metrics: get_identities (which catches every exception),
\* its own query("Staking", "ActiveEra"), the loop over
\* validator_stakes.items() and previous_stakes = validator_stakes.
EmitMetrics ==
    /\ pc = "current_era"
    /\ \/ Raise("current_era")
       \/ /\ LET current_era == era
                 g == EmitLoop(validators, stakes, previous_stakes, current_era,
                               AllGauges(VALIDATOR_CAPS_IN, VALIDATOR_CAPS_OUT,
                                         VALIDATOR_SELF_STAKE, VALIDATOR_NOMINATIONS,
                                         VALIDATOR_TOTAL_STAKE,
                                         VALIDATOR_NOMINATOR_COUNT, VALIDATOR_REWARDS))
             IN  /\ VALIDATOR_CAPS_IN' = g.caps_in
                 /\ VALIDATOR_CAPS_OUT' = g.caps_out
                 /\ VALIDATOR_SELF_STAKE' = g.self_stake
                 /\ VALIDATOR_NOMINATIONS' = g.nominations
                 /\ VALIDATOR_TOTAL_STAKE' = g.total_stake
                 /\ VALIDATOR_NOMINATOR_COUNT' = g.nominator_count
                 /\ VALIDATOR_REWARDS' = g.rewards
          /\ previous_stakes' = PreviousAfterCycle(previous_stakes, stakes)
          /\ last_completed' = Some(stakes)
          /\ pc' = "cycle_sleep"
          /\ validators' = <<>>
          /\ idx' = 0
          /\ era_index' = 0
          /\ UNCHANGED <<connVars, failure, era, stakes, callVars, exit_status,
                         swallowed>>

\* asyncio.sleep(60) is over.
CycleWake ==
    /\ pc = "cycle_sleep"
    /\ pc' = "update"
    /\ UNCHANGED <<connVars, failure, era, cycleVars,
                   previous_stakes, gaugeVars, callVars, loopVars>>

\* ------------------------------------------------------------- metrics_loop
\* An except that re-raises after its sleep: the exception leaves metrics_loop
\* and the process ends with status 1.
ErrorWake_reraise ==
    /\ pc = "error_sleep"
    /\ pc' = "exit"
    /\ exit_status' = Some(1)
    /\ UNCHANGED <<connVars, failure, era, cycleVars, previous_stakes,
                   gaugeVars, callVars, last_completed, swallowed>>

\* except: asyncio.sleep(5) is over; the finally block is next.
ErrorWake ==
    /\ pc = "error_sleep"
    /\ pc' = "closing"
    /\ UNCHANGED <<connVars, failure, era, cycleVars, previous_stakes,
                   gaugeVars, callVars, loopVars>>

\* The outer loop starts again: substrate = None, a new create_connection.
Restart ==
    /\ substrate' = "None"
    /\ pc' = "connect"
    /\ failure' = "none"
    /\ attempt' = 0
    /\ made' = 0
    /\ waits' = 0

\* A reconnect that starts from scratch: the stored snapshots are dropped.
CloseHandle_forget ==
    /\ pc = "closing"
    /\ Restart
    /\ previous_stakes' = EmptyMap
    /\ UNCHANGED <<leaked, era, cycleVars, gaugeVars, callVars, loopVars>>

\* finally: substrate.close() if there is a handle.
CloseHandle ==
    /\ pc = "closing"
    /\ Restart
    /\ UNCHANGED <<leaked, era, cycleVars, previous_stakes,
                   gaugeVars, callVars, loopVars>>

\* ------------------------------------------------------------------ signal
\* sys.exit(0) of signal_handler unwinds metrics_loop: SystemExit (or the
\* CancelledError asyncio.run sends into a sleeping task) passes every
\* "except Exception", the finally block closes the handle, and the process
\* exits with the status of SystemExit.  The memory of the process is gone.
Exit(status) ==
    /\ pc' = "exit"
    /\ exit_status' = Some(status)
    /\ attempt' = 0
    /\ made' = 0
    /\ waits' = 0
    /\ substrate' = "None"
    /\ failure' = "none"
    /\ validators' = <<>>
    /\ idx' = 0
    /\ era_index' = 0
    /\ stakes' = EmptyMap
    /\ previous_stakes' = EmptyMap
    /\ VALIDATOR_CAPS_IN' = EmptyMap
    /\ VALIDATOR_CAPS_OUT' = EmptyMap
    /\ VALIDATOR_SELF_STAKE' = EmptyMap
    /\ VALIDATOR_NOMINATIONS' = EmptyMap
    /\ VALIDATOR_TOTAL_STAKE' = EmptyMap
    /\ VALIDATOR_NOMINATOR_COUNT' = EmptyMap
    /\ VALIDATOR_REWARDS' = EmptyMap
    /\ last_completed' = Nothing
    /\ UNCHANGED <<leaked, era, swallowed, callVars>>

\* SIGINT is delivered.  While substrate.close() runs in the finally block, the
\* bare "except: pass" around it catches the SystemExit of the handler: the
\* close is cut short where the signal hit it and the loop goes on.
Signal ==
    /\ pc # "exit"
    /\ IF pc = "closing"
       THEN /\ swallowed < MaxSwallowed
            /\ swallowed' = swallowed + 1
            /\ Restart
            /\ \/ leaked' = leaked
               \/ /\ substrate = "open"
                  /\ leaked < MaxLeaked
                  /\ leaked' = leaked + 1
            /\ UNCHANGED <<era, cycleVars, previous_stakes, gaugeVars,
                           callVars, exit_status, last_completed>>
       ELSE Exit(0)

\* ------------------------------------------------------------------- chain
\* The chain's active era advances at any time.
AdvanceEra ==
    /\ era < MaxEra
    /\ era' = era + 1
    /\ UNCHANGED <<pc, connVars, failure, cycleVars,
                   previous_stakes, gaugeVars, callVars, loopVars>>

Next ==
    \/ ConnectAttempt
    \/ RetryWake
    \/ Connected
    \/ BeginCycle
    \/ StakersStep
    \/ EmitMetrics
    \/ CycleWake
    \/ ErrorWake
    \/ CloseHandle
    \/ Signal
    \/ AdvanceEra

Spec == Init /\ [][Next]_vars

\* The event loop runs the one task it has: a sleep ends, a query returns or
\* raises, and the step after it is taken.  Nothing is assumed of the signal
\* or of the chain's era.
Fairness ==
    /\ WF_vars(ConnectAttempt)
    /\ WF_vars(RetryWake)
    /\ WF_vars(Connected)
    /\ WF_vars(BeginCycle)
    /\ WF_vars(StakersStep)
    /\ WF_vars(EmitMetrics)
    /\ WF_vars(CycleWake)
    /\ WF_vars(ErrorWake)
    /\ WF_vars(CloseHandle)

LiveSpec == Spec /\ Fairness

\* ------------------------------------------------- functions on their own
\* get_validator_stakes as a function of the chain's replies: whether it raised,
\* and the map it returned.
StakesResult(raised, built) == [raised |-> raised, stakes |-> built]

RECURSIVE StakesLoop(_, _, _)
StakesLoop(order, replies, built) ==
    IF order = <<>> THEN built
    ELSE LET validator == Head(order)
             r == replies[validator]
         IN  StakesLoop(Tail(order), replies,
                        ProcessValidator(built, validator, r.exposure, r.pts, r.rew))

get_validator_stakes(era_ok, order, replies) ==
    IF era_ok
    THEN StakesResult(FALSE, StakesLoop(order, replies, EmptyMap))
    ELSE StakesResult(TRUE, EmptyMap)

\* No gauge has a reading yet.
NoGauges == AllGauges(EmptyMap, EmptyMap, EmptyMap, EmptyMap, EmptyMap, EmptyMap, EmptyMap)

CyclesResult(prev, g) == [previous_stakes |-> prev, gauges |-> g]

\* update_metrics called once per element of cycles, each call completing: the
\* element gives the validators listed, the chain's replies and the era read.
RECURSIVE update_metrics(_, _, _)
update_metrics(cycles, prev, g) ==
    IF cycles = <<>> THEN CyclesResult(prev, g)
    ELSE LET c == Head(cycles)
             validator_stakes == get_validator_stakes(TRUE, c.validators, c.replies).stakes
         IN  update_metrics(Tail(cycles),
                            PreviousAfterCycle(prev, validator_stakes),
                            EmitLoop(c.validators, validator_stakes, prev, c.era, g))

\* The stakes track_stake_movements is given: balances turned into CAPS.
StakeValues == {ToCaps(r) : r \in 0..MaxRaw}

\* The gauges before a call: never set, or holding an earlier reading.
StartGauges ==
    {Gauges(EmptyMap, EmptyMap), Gauges([v \in {"v1"} |-> 1], [v \in {"v1"} |-> 1])}

TrackInputs ==
    [fn : {"track_stake_movements"}, validator : {"v1"}, current : StakeValues,
     previous : {Nothing} \cup {Some(x) : x \in StakeValues}, gauges : StartGauges]

RewardInputs ==
    [fn : {"get_era_rewards"}, validator : Validators,
     pts : PointsReplies(MaxTableLen, MaxPoints), rew : RewardReplies(MaxRawReward)]

Reply(exposure, pts, rew) == [exposure |-> exposure, pts |-> pts, rew |-> rew]

\* One validator's replies: the exposure reply, and for an exposure that is
\* processed the replies of the two reward queries.
ValidatorReplies ==
    LET exposures == ExposureReplies(MaxRaw)
    IN  {Reply(e, NoPoints, NoReward) : e \in {x \in exposures : x.kind # "ok"}}
          \cup {Reply(e, p, NoReward) :
                  e \in {x \in exposures : x.kind = "ok"},
                  p \in {x \in PollPointsReplies : x.kind # "list" \/ HasBad(x.table)}}
          \cup {Reply(e, p, r) :
                  e \in {x \in exposures : x.kind = "ok"},
                  p \in {x \in PollPointsReplies : x.kind = "list" /\ ~HasBad(x.table)},
                  r \in PollRewardReplies}

Range(seq) == {seq[i] : i \in 1..Len(seq)}

StakesInputs ==
    UNION {[fn : {"get_validator_stakes"}, era_ok : {TRUE}, validators : {vs},
            replies : [Range(vs) -> ValidatorReplies]] : vs \in SubLists(ValidatorOrder)}
      \cup {[fn |-> "get_validator_stakes", era_ok |-> FALSE,
             validators |-> ValidatorOrder,
             replies |-> [v \in Validators |-> Reply(ExposureReply("ok", 0, 0, 0),
                                                     NoPoints, NoReward)]]}

\* One validator whose on-chain exposure stays the same while its exposure
\* query succeeds or raises from cycle to cycle.
Cycle(vs, replies, e) == [validators |-> vs, replies |-> replies, era |-> e]

RECURSIVE SeqsUpTo(_, _)
SeqsUpTo(S, n) ==
    IF n = 0 THEN {<<>>}
    ELSE LET shorter == SeqsUpTo(S, n - 1)
         IN  shorter \cup {<<x>> \o q : x \in S, q \in {r \in shorter : Len(r) = n - 1}}

CyclesInputs ==
    UNION {[fn : {"update_metrics"}, total : {t},
            cycles : SeqsUpTo({Cycle(<<"v1">>,
                                     [v \in {"v1"} |->
                                        Reply(ExposureReply(k, 0, t, 1), NoPoints, NoReward)],
                                     0) : k \in {"ok", "raise"}},
                              MaxCycles)] : t \in 1..MaxRaw}

MathInit ==
    /\ ProgInit
    /\ input \in TrackInputs \cup RewardInputs \cup StakesInputs \cup CyclesInputs
    /\ output = <<>>

CallTrack ==
    /\ input.fn = "track_stake_movements"
    /\ output = <<>>
    /\ output' = <<track_stake_movements(input.validator, input.current, input.previous,
                                         input.gauges.caps_in, input.gauges.caps_out)>>
    /\ UNCHANGED <<progVars, input>>

CallRewards ==
    /\ input.fn = "get_era_rewards"
    /\ output = <<>>
    /\ output' = <<get_era_rewards(input.validator, input.pts, input.rew)>>
    /\ UNCHANGED <<progVars, input>>

CallStakes ==
    /\ input.fn = "get_validator_stakes"
    /\ output = <<>>
    /\ output' = <<get_validator_stakes(input.era_ok, input.validators, input.replies)>>
    /\ UNCHANGED <<progVars, input>>

CallCycles ==
    /\ input.fn = "update_metrics"
    /\ output = <<>>
    /\ output' = <<update_metrics(input.cycles, EmptyMap, NoGauges)>>
    /\ UNCHANGED <<progVars, input>>

MathNext ==
    \/ CallTrack
    \/ CallRewards
    \/ CallStakes
    \/ CallCycles

MathSpec == MathInit /\ [][MathNext]_vars

\* ------------------------------------------------------------------ claims
Called(fn) == input.fn = fn /\ Len(output) = 1

AllZero ==
    [self_stake |-> 0, total_stake |-> 0, nominations |-> 0, nominator_count |-> 0,
     rewards |-> 0, slashes |-> 0]

ExposureRaises(r) == r.exposure.kind \in {"raise", "malformed"}

NumericTable(t) == \A i \in 1..Len(t) : t[i].shape # "bad"
IsPair(e) == e.shape = "pair"

\* The points of a table's first n entries, added in order.
RECURSIVE PointsSum(_, _)
PointsSum(t, n) ==
    IF n = 0 THEN 0 ELSE FAdd(PointsSum(t, n - 1), FloatOfInt(t[n].points))

TotalOf(t) == LET pairs == SelectSeq(t, IsPair) IN PointsSum(pairs, Len(pairs))

\* The points of the first entry of the table with this address, 0 without one.
FirstMatch(t, validator) ==
    LET m == {i \in 1..Len(t) : IsPair(t[i]) /\ t[i].addr = validator}
    IN  IF m = {} THEN 0
        ELSE FloatOfInt(t[CHOOSE i \in m : \A j \in m : i <= j].points)

\* The reward queries or their parsing raise inside get_era_rewards.
RewardsRaise(r) ==
    \/ r.pts.kind = "raise"
    \/ r.pts.kind = "list" /\ ~NumericTable(r.pts.table)
    \/ r.pts.kind = "list" /\ NumericTable(r.pts.table) /\ r.rew.kind = "raise"

\* C1: when the active-era read succeeds, get_validator_stakes does not raise;
\* a validator v whose exposure query or processing raises gets the all-zero
\* snapshot, and every other validator w whose own queries succeed has exactly
\* the snapshot it has in the call where v's queries succeed instead.
C1_FailureIsolated ==
    (Called("get_validator_stakes") /\ input.era_ok) =>
        LET out == output[1]
            listed == Range(input.validators)
        IN  /\ ~out.raised
            /\ \A v \in listed :
                 ExposureRaises(input.replies[v]) =>
                   /\ v \in DOMAIN out.stakes
                   /\ out.stakes[v] = AllZero
                   /\ \A w \in listed \ {v} :
                        input.replies[w].exposure.kind = "ok" =>
                          /\ w \in DOMAIN out.stakes
                          /\ \A alt \in {r \in ValidatorReplies : r.exposure.kind = "ok"} :
                               LET other == get_validator_stakes(
                                                TRUE, input.validators,
                                                [input.replies EXCEPT ![v] = alt])
                               IN  /\ w \in DOMAIN other.stakes
                                   /\ out.stakes[w] = other.stakes[w]

C1_Witness ==
    /\ Called("get_validator_stakes")
    /\ input.era_ok
    /\ input.validators = <<"v1", "v2">>
    /\ input.replies["v1"].exposure.kind = "raise"
    /\ input.replies["v2"].exposure.kind = "ok"
    /\ output[1].stakes["v1"] = AllZero
    /\ output[1].stakes["v2"].total_stake > 0

\* C5: with a previous total present, track_stake_movements returns
\* (current - previous, 0) when current > previous, (0, previous - current) when
\* current < previous and (0, 0) when they are equal; both components are
\* non-negative and at most one is non-zero.
C5_MovementIsSignedDifference ==
    (Called("track_stake_movements") /\ input.previous # Nothing) =>
        LET cur == input.current
            prev == input.previous[1]
            r == output[1]
        IN  /\ cur > prev => r.inbound = FSub(cur, prev) /\ r.outbound = 0
            /\ cur < prev => r.inbound = 0 /\ r.outbound = FSub(prev, cur)
            /\ cur = prev => r.inbound = 0 /\ r.outbound = 0
            /\ r.inbound >= 0
            /\ r.outbound >= 0
            /\ r.inbound = 0 \/ r.outbound = 0

C5_Witness ==
    /\ Called("track_stake_movements")
    /\ input.previous # Nothing
    /\ input.current < input.previous[1]
    /\ output[1].outbound > 0
    /\ output[1].inbound = 0

\* C6: every snapshot of every map get_validator_stakes returns satisfies
\* total_stake = self_stake + nominations.
C6_TotalIsSelfPlusNominations ==
    Called("get_validator_stakes") =>
        \A v \in DOMAIN output[1].stakes :
            LET snap == output[1].stakes[v]
            IN  snap.total_stake = FAdd(snap.self_stake, snap.nominations)

\* C7: with both era queries succeeding and a well-formed table of positive
\* total, get_era_rewards returns (validatorPoints / totalPoints) *
\* totalRewardPool: totalPoints the sum of all entries' points, validatorPoints
\* the points of the first entry with the validator's address (0 without one),
\* totalRewardPool the raw era reward divided by the CAPS unit.
C7_ProportionalReward ==
    (/\ Called("get_era_rewards")
     /\ input.pts.kind = "list"
     /\ \A i \in 1..Len(input.pts.table) : IsPair(input.pts.table[i])
     /\ input.rew.kind = "value"
     /\ TotalOf(input.pts.table) > 0) =>
        /\ output[1].reward =
             FMul(FDiv(FirstMatch(input.pts.table, input.validator),
                       TotalOf(input.pts.table)),
                  ToCaps(input.rew.raw))
        /\ ~output[1].logged

C7_Witness ==
    /\ Called("get_era_rewards")
    /\ input.validator = "v1"
    /\ input.pts = PointsReply("list", <<PairEntry("v1", 1), PairEntry("v1", 2)>>)
    /\ input.rew = RewardReply("value", MaxRawReward)
    /\ output[1].reward > 0

\* C8: when the reward-points table sums to 0 (the empty table included) and
\* the era-reward query does not raise, get_era_rewards returns 0 for every
\* validator and every reward pool, and logs no error.
C8_ZeroTotalGivesZero ==
    (/\ Called("get_era_rewards")
     /\ input.pts.kind = "list"
     /\ NumericTable(input.pts.table)
     /\ TotalOf(input.pts.table) = 0
     /\ input.rew.kind # "raise") =>
        /\ output[1].reward = 0
        /\ ~output[1].logged

C8_Witness ==
    /\ Called("get_era_rewards")
    /\ input.pts = PointsReply("list", <<PairEntry("v1", 0), PairEntry("v2", 0)>>)
    /\ input.rew = RewardReply("value", MaxRawReward)
    /\ output[1] = RewardResult(0, FALSE)

\* C9: when the reward queries or their parsing raise while validator v is
\* processed, get_era_rewards returns 0, v's snapshot keeps the stakes and the
\* nominator count of its exposure with rewards = 0, and every listed validator
\* whose exposure is not falsy has a snapshot.
C9_RewardFailureKeepsStakes ==
    (Called("get_validator_stakes") /\ input.era_ok) =>
        LET out == output[1]
            listed == Range(input.validators)
        IN  \A v \in listed :
              LET r == input.replies[v]
              IN  (r.exposure.kind = "ok" /\ RewardsRaise(r)) =>
                    /\ get_era_rewards(v, r.pts, r.rew).reward = 0
                    /\ ~out.raised
                    /\ v \in DOMAIN out.stakes
                    /\ out.stakes[v] =
                         [self_stake |-> ToCaps(r.exposure.own),
                          total_stake |-> ToCaps(r.exposure.total),
                          nominations |-> FSub(ToCaps(r.exposure.total),
                                               ToCaps(r.exposure.own)),
                          nominator_count |-> r.exposure.others,
                          rewards |-> 0, slashes |-> 0]
                    /\ \A w \in listed :
                         input.replies[w].exposure.kind # "falsy" =>
                           w \in DOMAIN out.stakes

C9_Witness ==
    /\ Called("get_validator_stakes")
    /\ input.era_ok
    /\ input.validators = <<"v1", "v2">>
    /\ input.replies["v1"].exposure.kind = "ok"
    /\ input.replies["v1"].pts.kind = "raise"
    /\ output[1].stakes["v1"].nominations > 0
    /\ output[1].stakes["v1"].rewards = 0
    /\ input.replies["v2"].exposure.kind = "ok"
    /\ output[1].stakes["v2"].rewards > 0

\* C2: when the active-era read of get_validator_stakes fails, the exception
\* reaches metrics_loop's except and previous_stakes is what it was when the
\* cycle started.
C2_EraFailureKeepsPrevious ==
    [][(pc = "update" /\ failure' = "active_era") =>
          /\ pc' = "error_sleep"
          /\ previous_stakes' = previous_stakes]_vars

C2_Witness ==
    /\ pc = "error_sleep"
    /\ failure = "active_era"
    /\ "v1" \in DOMAIN previous_stakes
    /\ previous_stakes["v1"].total_stake > 0

\* C3: after a poll cycle that completed, previous_stakes is exactly the map
\* built in that cycle: the same validators with the same snapshots, and no
\* validator of the earlier map that the new one lacks.
C3_PreviousReplacedWholesale ==
    pc = "cycle_sleep" =>
        /\ DOMAIN previous_stakes = DOMAIN stakes
        /\ \A v \in DOMAIN stakes : previous_stakes[v] = stakes[v]

\* v1 was tracked (a movement of it was published) and the last cycle's map
\* holds v2 alone.
C3_Witness ==
    /\ pc = "cycle_sleep"
    /\ "v1" \in DOMAIN VALIDATOR_CAPS_IN
    /\ DOMAIN previous_stakes = {"v2"}

SameGauges(v) ==
    /\ (v \in DOMAIN VALIDATOR_CAPS_IN') <=> (v \in DOMAIN VALIDATOR_CAPS_IN)
    /\ v \in DOMAIN VALIDATOR_CAPS_IN => VALIDATOR_CAPS_IN'[v] = VALIDATOR_CAPS_IN[v]
    /\ (v \in DOMAIN VALIDATOR_CAPS_OUT') <=> (v \in DOMAIN VALIDATOR_CAPS_OUT)
    /\ v \in DOMAIN VALIDATOR_CAPS_OUT => VALIDATOR_CAPS_OUT'[v] = VALIDATOR_CAPS_OUT[v]

\* C4: without a previous total track_stake_movements returns (0, 0) and sets
\* neither gauge, whatever the current total; a cycle of update_metrics leaves
\* both movement gauges of every validator that has no entry in previous_stakes
\* as they were.
C4_NoPreviousNoMovement ==
    [][/\ \A cur \in StakeValues : \A g \in StartGauges :
            track_stake_movements("v1", cur, Nothing, g.caps_in, g.caps_out)
                = MoveResult(0, 0, g.caps_in, g.caps_out)
       /\ (pc = "current_era" /\ pc' = "cycle_sleep") =>
            \A v \in DOMAIN stakes : v \notin DOMAIN previous_stakes => SameGauges(v)]_vars

\* After a cycle v1 has a first snapshot with stake and no movement reading.
C4_Witness ==
    /\ pc = "cycle_sleep"
    /\ "v1" \in DOMAIN previous_stakes
    /\ previous_stakes["v1"].total_stake > 0
    /\ "v1" \notin DOMAIN VALIDATOR_CAPS_IN
    /\ "v1" \notin DOMAIN VALIDATOR_CAPS_OUT

\* C10: a call of create_connection makes at most MAX_RETRIES attempts; it
\* returns only with a live handle, right after the first attempt that succeeds;
\* it waits after each failed attempt but the last; it raises exactly when the
\* attempt numbered MAX_RETRIES fails, without waiting.
C10_BoundedRetries ==
    /\ made <= MAX_RETRIES
    /\ pc = "connect" => made = attempt /\ waits = made /\ made < MAX_RETRIES
    /\ pc = "retry_wait" => made = attempt + 1 /\ waits = made /\ made < MAX_RETRIES
    /\ pc = "connected" => substrate = "open" /\ made = attempt + 1 /\ waits = made - 1
    /\ (pc = "error_sleep" /\ failure = "connect") =>
          /\ made = MAX_RETRIES
          /\ waits = MAX_RETRIES - 1
          /\ substrate = "None"

C10_Witness ==
    /\ pc = "error_sleep"
    /\ failure = "connect"
    /\ made = MAX_RETRIES
    /\ waits = MAX_RETRIES - 1


\* ------------------------------------------------- loop, signal, gauges
FreshAttempt == pc = "connect" /\ attempt = 0 /\ made = 0
Stopped == pc = "exit"

\* C11: no connection failure and no error of a poll cycle ends metrics_loop:
\* the process stops by a signal only; after every error the loop waits, closes
\* and, unless a signal stops it, starts a fresh call of create_connection,
\* and every such call leads to a poll cycle or to the next connection error,
\* however many errors came before.
C11_ErrorsNeverTerminate ==
    /\ [][(pc # "exit" /\ pc' = "exit") => Signal]_vars
    /\ (pc = "error_sleep") ~> (FreshAttempt \/ Stopped)
    /\ FreshAttempt ~>
         (pc = "update" \/ (pc = "error_sleep" /\ failure = "connect") \/ Stopped)

\* A fresh connection attempt after a cycle had completed on an earlier
\* connection: an error brought the loop back here.
C11_Witness ==
    /\ FreshAttempt
    /\ last_completed # Nothing
    /\ leaked = MaxLeaked

\* C12: a signal that arrives in any state of the loop stops the process at
\* once: the next state is the exit, with status 0 and the handle closed.
C12_SignalStopsProcess ==
    [][Signal => (pc' = "exit" /\ exit_status' = Some(0) /\ substrate' = "None")]_vars

\* What a gauge publishes for a validator: its reading, 0 for a series that was
\* never set.
Reading(series, v) == IF v \in DOMAIN series THEN series[v] ELSE 0

CycleCompletes == pc = "current_era" /\ pc' = "cycle_sleep"

\* C13: after a completed cycle the published caps_in and caps_out of every
\* validator that had a previous snapshot are the pair computed in that cycle,
\* so the two published values of one validator are never both non-zero.
C13_PublishedPairIsComputedPair ==
    /\ [][CycleCompletes =>
            \A v \in (DOMAIN stakes) \cap (DOMAIN previous_stakes) :
                LET m == track_stake_movements(
                             v, stakes[v].total_stake, PreviousTotal(previous_stakes, v),
                             EmptyMap, EmptyMap)
                IN  /\ Reading(VALIDATOR_CAPS_IN', v) = m.inbound
                    /\ Reading(VALIDATOR_CAPS_OUT', v) = m.outbound]_vars
    /\ [](\A v \in Validators :
            Reading(VALIDATOR_CAPS_IN, v) = 0 \/ Reading(VALIDATOR_CAPS_OUT, v) = 0)

\* The reward series of validator v: the era labels they carry, and their
\* readings.
RewardLabels(series, v) == {k[2] : k \in {x \in DOMAIN series : x[1] = v}}
SameRewards(v) ==
    /\ RewardLabels(VALIDATOR_REWARDS', v) = RewardLabels(VALIDATOR_REWARDS, v)
    /\ \A e \in RewardLabels(VALIDATOR_REWARDS, v) :
         VALIDATOR_REWARDS'[<<v, e>>] = VALIDATOR_REWARDS[<<v, e>>]

\* C14: a completed cycle sets the self-stake, nominations, total-stake and
\* nominator-count gauges of every validator of its map to the snapshot's
\* values; it sets one reward reading, the snapshot's reward, exactly for the
\* validators whose reward is greater than 0, and leaves the reward series of a
\* validator whose reward is 0 (the all-zero snapshot included) as they were.
C14_RewardSetIffPositive ==
    [][CycleCompletes =>
         \A v \in DOMAIN stakes :
            /\ v \in DOMAIN VALIDATOR_SELF_STAKE'
            /\ VALIDATOR_SELF_STAKE'[v] = stakes[v].self_stake
            /\ v \in DOMAIN VALIDATOR_NOMINATIONS'
            /\ VALIDATOR_NOMINATIONS'[v] = stakes[v].nominations
            /\ v \in DOMAIN VALIDATOR_TOTAL_STAKE'
            /\ VALIDATOR_TOTAL_STAKE'[v] = stakes[v].total_stake
            /\ v \in DOMAIN VALIDATOR_NOMINATOR_COUNT'
            /\ VALIDATOR_NOMINATOR_COUNT'[v] = stakes[v].nominator_count
            /\ stakes[v].rewards > 0 =>
                 \E e \in 0..MaxEra :
                    /\ <<v, e>> \in DOMAIN VALIDATOR_REWARDS'
                    /\ VALIDATOR_REWARDS'[<<v, e>>] = stakes[v].rewards
                    /\ \A k \in DOMAIN VALIDATOR_REWARDS :
                         (k[1] = v /\ k[2] # e) =>
                            /\ k \in DOMAIN VALIDATOR_REWARDS'
                            /\ VALIDATOR_REWARDS'[k] = VALIDATOR_REWARDS[k]
            /\ ~(stakes[v].rewards > 0) => SameRewards(v)]_vars

\* A cycle has just given v1 the all-zero snapshot: its four stake gauges read
\* 0 and its one reward series is the reading of an earlier cycle.
C14_Witness ==
    /\ pc = "cycle_sleep"
    /\ "v1" \in DOMAIN stakes
    /\ stakes["v1"] = ZeroSnapshot
    /\ VALIDATOR_SELF_STAKE["v1"] = 0
    /\ VALIDATOR_TOTAL_STAKE["v1"] = 0
    /\ RewardLabels(VALIDATOR_REWARDS, "v1") = {0}
    /\ VALIDATOR_REWARDS[<<"v1", 0>>] > 0

\* C15: a poll cycle that raises (the validator listing, the active-set read,
\* the era read of get_validator_stakes or the second era read) leaves every
\* series of every gauge as it was.
C15_FailedCycleKeepsGauges ==
    [][(pc \in {"update", "stakers", "current_era"} /\ pc' = "error_sleep") =>
          UNCHANGED gaugeVars]_vars

\* The second era read has just failed and the readings of the cycle before
\* are still published.
C15_Witness ==
    /\ pc = "error_sleep"
    /\ failure = "current_era"
    /\ "v1" \in DOMAIN VALIDATOR_TOTAL_STAKE
    /\ VALIDATOR_TOTAL_STAKE["v1"] > 0
    /\ "v1" \in DOMAIN VALIDATOR_CAPS_IN
    /\ <<"v1", 0>> \in DOMAIN VALIDATOR_REWARDS

\* C16: whenever get_validator_stakes returns without raising, the keys of the
\* returned map are exactly the validators it was given.
C16_KeysAreInputValidators ==
    (Called("get_validator_stakes") /\ ~output[1].raised) =>
        DOMAIN output[1].stakes = Range(input.validators)

\* C17: over consecutive completed cycles in which every successful reading of
\* a validator's total stake gives the same value, whatever cycles fail to read
\* it, no caps_in and no caps_out reading other than 0 is published for it.
C17_NoMovementWithoutStakeChange ==
    Called("update_metrics") =>
        /\ Reading(output[1].gauges.caps_in, "v1") = 0
        /\ Reading(output[1].gauges.caps_out, "v1") = 0

\* Connections that are open: the handle metrics_loop holds, and the handles
\* that were dropped without close.
OpenHandles == leaked + (IF substrate = "open" THEN 1 ELSE 0)

\* C18: at most one connection is open at any time, and none is open when a
\* connection attempt is made.
C18_AtMostOneOpen ==
    /\ OpenHandles <= 1
    /\ pc = "connect" => OpenHandles = 0

\* C19: the cycle that completes read the same active era twice: the era of
\* its exposure and reward queries is the era it labels the rewards with, and
\* every reward greater than 0 is published under that era.
C19_LabelIsRewardEra ==
    [][CycleCompletes =>
          /\ era = era_index
          /\ \A v \in DOMAIN stakes :
               stakes[v].rewards > 0 =>
                  /\ <<v, era_index>> \in DOMAIN VALIDATOR_REWARDS'
                  /\ VALIDATOR_REWARDS'[<<v, era_index>>] = stakes[v].rewards]_vars

\* The map the most recent completed cycle stored, empty when none completed.
StoredMap == IF last_completed = Nothing THEN EmptyMap ELSE last_completed[1]

\* C20 as stated: previous_stakes is at all times the map of the most recent
\* completed cycle, the movements of a completing cycle are computed against
\* it, and it is empty only while no cycle has completed.
C20_EmptyOnlyBeforeFirstCycle ==
    /\ [](previous_stakes = StoredMap)
    /\ [](previous_stakes = EmptyMap => last_completed = Nothing)

\* C20, amended: whatever cycles failed and whatever connections were lost or
\* retried since, previous_stakes is the map of the most recent completed
\* cycle, and a completing cycle computes its movements against that map; it
\* is empty while no cycle has completed and after a completed cycle whose map
\* was empty.
C20_PreviousIsLastCompleted ==
    /\ [](previous_stakes = StoredMap)
    /\ [](previous_stakes = EmptyMap =>
            (last_completed = Nothing \/ last_completed = Some(EmptyMap)))
    /\ [][CycleCompletes =>
            LET g == EmitLoop(validators, stakes, StoredMap, era,
                              AllGauges(VALIDATOR_CAPS_IN, VALIDATOR_CAPS_OUT,
                                        VALIDATOR_SELF_STAKE, VALIDATOR_NOMINATIONS,
                                        VALIDATOR_TOTAL_STAKE,
                                        VALIDATOR_NOMINATOR_COUNT, VALIDATOR_REWARDS))
            IN  /\ VALIDATOR_CAPS_IN' = g.caps_in
                /\ VALIDATOR_CAPS_OUT' = g.caps_out]_vars

\* All retries of a reconnect are used up and the snapshot of the last
\* completed cycle is still stored.
C20_Witness ==
    /\ pc = "error_sleep"
    /\ failure = "connect"
    /\ made = MAX_RETRIES
    /\ "v1" \in DOMAIN previous_stakes
    /\ previous_stakes["v1"].total_stake > 0

====
